---- MODULE Spec2Model ----
(***************************************************************************)
(* Model of the interview backend (backend/services/interview_service.py,  *)
(* backend/main.py): the phase classifier, the speech sanitizer, the turn  *)
(* orchestrator and the feedback generator of InterviewService, run by the *)
(* single module-level instance that main.py shares between requests.      *)
(*                                                                         *)
(* Texts are sequences of one-character strings, Python's None is the      *)
(* empty sequence None and a present value x is Some(x) = <<x>>.           *)
(***************************************************************************)
EXTENDS Integers, Sequences, FiniteSets, TLC

VARIABLES
    transcript,       \* SpecPhase: the caller's growing message history
    phase,            \* SpecPhase: determine_phase(transcript) of the last turn
    candidate_name,   \* self.candidate_name of the shared InterviewService
    fs,               \* temp audio files on disk: file name -> file data
    nextUuid,         \* number of uuid4() names drawn so far
    heap,             \* Python list objects: reference -> sequence of messages
    pc,               \* per call: position in the running method
    op,               \* per call: "turn" or "feedback"
    arg_name,         \* per call: the candidate_name argument
    arg_messages,     \* per call: value of the caller's history when the call started
    api_messages,     \* per call: message list of the last completion request sent
    response_text,    \* per call: response_text of process_interview_turn
    sanitized_text,   \* per call: text handed to the speech collaborator
    filename,         \* per call: temp file name of text_to_speech
    audio_data,       \* per call: base64_audio local of text_to_speech
    removeAttempted,  \* per call: os.remove was called on filename
    env,              \* per call: what the external collaborators answered
    completionCalls,  \* per call: chat.completions.create requests made
    speechCalls,      \* per call: speak.save requests made
    result,           \* per call: what the call returned or raised
    p_in,             \* SpecPrompt: arguments of build_interview_system_prompt
    p_out,            \* SpecPrompt: the prompt it returned
    s_in,             \* SpecSanitize: the text and self.candidate_name
    s_out,            \* SpecSanitize: what _sanitize_for_speech returned
    t_audio,          \* SpecTranscribe: the uploaded audio bytes
    t_pc,             \* SpecTranscribe: position in the /transcribe handler
    t_calls,          \* SpecTranscribe: transcribe_file requests made
    t_response        \* SpecTranscribe: the HTTP response

vars == <<transcript, phase, candidate_name, fs, nextUuid, heap, pc, op, arg_name,
          arg_messages, api_messages, response_text, sanitized_text, filename,
          audio_data, removeAttempted, env, completionCalls, speechCalls, result,
          p_in, p_out, s_in, s_out, t_audio, t_pc, t_calls, t_response>>

(***************************************************************************)
(* Bounds                                                                  *)
(***************************************************************************)
MaxMsgs == 9

LongInterview == 9

MaxPieces == 2

MaxAudioLen == 3

MaxTurns == 10

MaxAnswers == 4

None == <<>>

Some(x) == <<x>>

(***************************************************************************)
(* Characters                                                              *)
(***************************************************************************)
LowerOf ==
    [A |-> "a", B |-> "b", C |-> "c", D |-> "d", E |-> "e", F |-> "f", G |-> "g",
     H |-> "h", I |-> "i", J |-> "j", K |-> "k", L |-> "l", M |-> "m", N |-> "n",
     O |-> "o", P |-> "p", Q |-> "q", R |-> "r", S |-> "s", T |-> "t", U |-> "u",
     V |-> "v", W |-> "w", X |-> "x", Y |-> "y", Z |-> "z"]

\* re.IGNORECASE compares characters up to letter case
Lower(ch) == IF ch \in DOMAIN LowerOf THEN LowerOf[ch] ELSE ch

LowerLetters == {LowerOf[u] : u \in DOMAIN LowerOf}

Digits == {"0", "1", "2", "3", "4", "5", "6", "7", "8", "9"}

\* \w of the re module
IsWordChar(ch) == Lower(ch) \in LowerLetters \cup Digits \cup {"_"}

\* \b at the gap before s[p] (p in 1..Len(s)+1)
WordBoundary(s, p) ==
    LET before == p > 1 /\ IsWordChar(s[p - 1])
        after  == p <= Len(s) /\ IsWordChar(s[p])
    IN  before # after

MatchAt_case_sensitive(s, i, term) ==
    /\ Len(term) > 0
    /\ i + Len(term) - 1 <= Len(s)
    /\ \A k \in 1..Len(term) : s[i + k - 1] = term[k]
    /\ WordBoundary(s, i)
    /\ WordBoundary(s, i + Len(term))

\* the pattern \b<term>\b matches s at position i, ignoring case
MatchAt(s, i, term) ==
    /\ Len(term) > 0
    /\ i + Len(term) - 1 <= Len(s)
    /\ \A k \in 1..Len(term) : Lower(s[i + k - 1]) = Lower(term[k])
    /\ WordBoundary(s, i)
    /\ WordBoundary(s, i + Len(term))

RECURSIVE SubFrom(_, _, _, _)
\* re.sub: leftmost non-overlapping matches from position i on
SubFrom(s, i, term, repl) ==
    IF i > Len(s) THEN <<>>
    ELSE IF MatchAt(s, i, term) THEN repl \o SubFrom(s, i + Len(term), term, repl)
    ELSE <<s[i]>> \o SubFrom(s, i + 1, term, repl)

re_sub(term, repl, text) == SubFrom(text, 1, term, repl)

\* Python's `needle in hay` on strings (case-sensitive)
Contains(hay, needle) ==
    \E i \in 1..(Len(hay) - Len(needle) + 1) :
        \A k \in 1..Len(needle) : hay[i + k - 1] = needle[k]

(***************************************************************************)
(* Speech sanitizer                                                        *)
(***************************************************************************)
replace_map ==
    << << <<"A","W","S">>, <<"A","."," ","W","."," ","S",".">> >>,
       << <<"S","Q","L">>, <<"S","e","q","u","e","l">> >>,
       << <<"A","P","I">>, <<"A","."," ","P","."," ","I",".">> >>,
       << <<"C","E","O">>, <<"C","."," ","E","."," ","O",".">> >>,
       << <<"C","T","O">>, <<"C","."," ","T","."," ","O",".">> >>,
       << <<"U","I">>, <<"U","."," ","I",".">> >>,
       << <<"U","X">>, <<"U","."," ","X",".">> >>,
       << <<"U","R","L">>, <<"U","."," ","R","."," ","L",".">> >>,
       << <<"S","a","a","S">>, <<"S","a","s","s">> >>,
       << <<"C","I","/","C","D">>, <<"C","."," ","I","."," ","C","."," ","D",".">> >>,
       << <<"J","W","T">>, <<"J","."," ","W","."," ","T",".">> >>,
       << <<"K","u","b","e","r","n","e","t","e","s">>,
          <<"K","o","o","-","b","e","r","-","n","e","t","-","e","e","s">> >>,
       << <<"g","R","P","C">>, <<"G","."," ","R","."," ","P","."," ","C",".">> >>,
       << <<"J","S","O","N">>, <<"J","a","y","-","s","a","w","n">> >>,
       << <<"r","e","s","u","m","e">>, <<"r","e","h","-","z","o","o","-","m","a","y">> >>,
       << <<"R","e","s","u","m","e">>, <<"R","e","h","-","z","o","o","-","m","a","y">> >>,
       << <<"l","i","v","e">>, <<"l","y","e","-","v">> >> >>

Zayeem == <<"Z","a","y","e","e","m">>

ZaaEem_keeps_name == <<"Z","a","y","e","e","m","-","e","e","m">>

ZaaEem == <<"Z","a","a","-","e","e","m">>

RulesFor_name_first(self_name) ==
    IF self_name # None /\ Len(self_name[1]) > 0 /\ Contains(self_name[1], Zayeem)
    THEN <<<<self_name[1], ZaaEem>>>> \o replace_map
    ELSE replace_map

RulesFor_no_name_rule(self_name) == replace_map

\* the rule table of one call: the fixed table, then the dynamic name rule
RulesFor(self_name) ==
    IF self_name # None /\ Len(self_name[1]) > 0 /\ Contains(self_name[1], Zayeem)
    THEN Append(replace_map, <<self_name[1], ZaaEem>>)
    ELSE replace_map

RECURSIVE ApplyRules(_, _, _)
\* for pattern, replacement in replace_map.items(): text = re.sub(...)
ApplyRules(rules, k, text) ==
    IF k > Len(rules) THEN text
    ELSE ApplyRules(rules, k + 1, re_sub(rules[k][1], rules[k][2], text))

_sanitize_for_speech_skipped(self_name, text) == text

_sanitize_for_speech(self_name, text) == ApplyRules(RulesFor(self_name), 1, text)

(***************************************************************************)
(* Phase classifier                                                        *)
(***************************************************************************)
\* dict.get(key): None when the key is missing
Get(msg, key) == IF key \in DOMAIN msg THEN Some(msg[key]) ELSE None

CountRole_all_entries(messages, role) == Len(messages)

RECURSIVE CountRole(_, _)
\* sum(1 for msg in messages if msg.get("role") == role)
CountRole(messages, role) ==
    IF messages = <<>> THEN 0
    ELSE (IF Get(Head(messages), "role") = Some(role) THEN 1 ELSE 0)
         + CountRole(Tail(messages), role)

determine_phase_typo(messages) ==
    LET assistant_count == CountRole(messages, "assistant")
    IN  IF assistant_count <= 1 THEN "INTRODUCTION"
        ELSE IF assistant_count >= 4 THEN "TECHNICAL"
        ELSE IF assistant_count <= 7 THEN "BEHAVIORAL"
        ELSE "WRAP_UP"

determine_phase_off_by_one(messages) ==
    LET assistant_count == CountRole(messages, "assistant")
    IN  IF assistant_count <= 1 THEN "INTRODUCTION"
        ELSE IF assistant_count <= 4 THEN "TECHNICAL"
        ELSE IF assistant_count < 7 THEN "BEHAVIORAL"
        ELSE "WRAP_UP"

determine_phase(messages) ==
    LET assistant_count == CountRole(messages, "assistant")
    IN  IF assistant_count <= 1 THEN "INTRODUCTION"
        ELSE IF assistant_count <= 4 THEN "TECHNICAL"
        ELSE IF assistant_count <= 7 THEN "BEHAVIORAL"
        ELSE "WRAP_UP"

(***************************************************************************)
(* Prompt assembler.  A prompt is a sequence of tokens: the characters of  *)
(* the interpolated arguments, and one token per fixed block of template   *)
(* text.                                                                   *)
(***************************************************************************)
Placeholder == "{candidate_name}"

Easy == <<"e","a","s","y">>

Medium == <<"m","e","d","i","u","m">>

Hard == <<"h","a","r","d">>

difficulty_instructions ==
    (Easy :> <<"<EASY MODE>">>) @@ (Medium :> <<"<MEDIUM MODE>">>)
    @@ (Hard :> <<"<HARD MODE>">>)

str_lower_missing(s) == s

\* str.lower()
str_lower(s) == [i \in 1..Len(s) |-> Lower(s[i])]

UpperOf ==
    [a |-> "A", b |-> "B", c |-> "C", d |-> "D", e |-> "E", f |-> "F", g |-> "G",
     h |-> "H", i |-> "I", j |-> "J", k |-> "K", l |-> "L", m |-> "M", n |-> "N",
     o |-> "O", p |-> "P", q |-> "Q", r |-> "R", s |-> "S", t |-> "T", u |-> "U",
     v |-> "V", w |-> "W", x |-> "X", y |-> "Y", z |-> "Z"]

\* str.upper()
str_upper(s) == [i \in 1..Len(s) |-> IF s[i] \in DOMAIN UpperOf THEN UpperOf[s[i]] ELSE s[i]]

phase_instructions ==
    [INTRODUCTION |-> <<"<INTRODUCTION: welcome>", Placeholder,
                        "<ask for an introduction, no technical questions; Hi>",
                        Placeholder, "<thanks for joining>">>,
     TECHNICAL    |-> <<"<TECHNICAL: technical deep dive>">>,
     BEHAVIORAL   |-> <<"<BEHAVIORAL: soft skills>">>,
     WRAP_UP      |-> <<"<WRAP_UP: close gracefully, no more questions; thank>",
                        Placeholder, "<thank you for your time today,>",
                        Placeholder, "<signal the interview is ending>">>]

RECURSIVE Replace_first_only(_, _, _)
Replace_first_only(s, old, new) ==
    IF s = <<>> THEN <<>>
    ELSE IF Head(s) = old THEN new \o Tail(s)
    ELSE <<Head(s)>> \o Replace_first_only(Tail(s), old, new)

RECURSIVE Replace(_, _, _)
\* str.replace(old, new) on a token sequence, old being one token
Replace(s, old, new) ==
    IF s = <<>> THEN <<>>
    ELSE (IF Head(s) = old THEN new ELSE <<Head(s)>>) \o Replace(Tail(s), old, new)

\* dict.get(key, default)
GetOr(map, key, default) == IF key \in DOMAIN map THEN map[key] ELSE default

build_interview_system_prompt_default_phase(job_description, resume_text, name, difficulty, ph) ==
    LET diff_instruction  == GetOr(difficulty_instructions, str_lower(difficulty),
                                   difficulty_instructions[Medium])
        phase_instruction == Replace(phase_instructions["INTRODUCTION"], Placeholder, name)
    IN  <<"<role framing>", "<JOB DESCRIPTION>">> \o job_description
        \o <<"<CANDIDATE RESUME>">> \o resume_text
        \o <<"<You are evaluating>">> \o name
        \o <<"<conduct rules: address the candidate as>">> \o name
        \o <<"<DIFFICULTY LEVEL>">> \o str_upper(difficulty) \o diff_instruction
        \o <<"<official name is>">> \o name \o <<"<always use>">> \o name
        \o <<"<CURRENT PHASE>">> \o phase_instruction \o <<"<phase takes priority>">>

build_interview_system_prompt(job_description, resume_text, name, difficulty, ph) ==
    LET diff_instruction  == GetOr(difficulty_instructions, str_lower(difficulty),
                                   difficulty_instructions[Medium])
        phase_instruction == Replace(GetOr(phase_instructions, ph,
                                           phase_instructions["INTRODUCTION"]),
                                     Placeholder, name)
    IN  <<"<role framing>", "<JOB DESCRIPTION>">> \o job_description
        \o <<"<CANDIDATE RESUME>">> \o resume_text
        \o <<"<You are evaluating>">> \o name
        \o <<"<conduct rules: address the candidate as>">> \o name
        \o <<"<DIFFICULTY LEVEL>">> \o str_upper(difficulty) \o diff_instruction
        \o <<"<official name is>">> \o name \o <<"<always use>">> \o name
        \o <<"<CURRENT PHASE>">> \o phase_instruction \o <<"<phase takes priority>">>

build_feedback_system_prompt == <<"<feedback evaluation instructions>">>

(***************************************************************************)
(* Inputs of the calls                                                     *)
(***************************************************************************)
Calls == {"A", "B"}

Msg(role, content) == [role |-> role, content |-> content]

Bob == <<"B","o","b">>

Names == {Zayeem, Bob}

JobDescription == <<"J","D">>

ResumeText == <<"C","V">>

Difficulty == Medium

UserMsg == Msg("user", <<"o","k">>)

AsstMsg == Msg("assistant", <<"q","?">>)

RECURSIVE Exchanges(_)
\* n question-and-answer exchanges
Exchanges(n) == IF n = 0 THEN <<>> ELSE Exchanges(n - 1) \o <<AsstMsg, UserMsg>>

\* empty, ending in a user entry, ending in an assistant entry, three user
\* entries, and a long interview
Histories ==
    { <<>>,
      <<AsstMsg, UserMsg>>,
      <<AsstMsg, UserMsg, AsstMsg>>,
      <<AsstMsg, UserMsg, AsstMsg, UserMsg, AsstMsg, UserMsg>>,
      Exchanges(LongInterview) }

\* texts the completion collaborator may return
CompletionTexts == { <<"H","i"," ","Z","a","y","e","e","m">>, <<"A","W","S">> }

VerifiedNamePrefix ==
    <<"[","S","y","s","t","e","m"," ","v","e","r","i","f","i","e","d"," ",
      "n","a","m","e",":"," ">>

Annotated_unseparated(name, original_content) ==
    VerifiedNamePrefix \o name \o <<"]">> \o original_content

\* f"[System verified name: {candidate_name}] {original_content}"
Annotated(name, original_content) ==
    VerifiedNamePrefix \o name \o <<"]", " ">> \o original_content

(***************************************************************************)
(* Results of a call                                                       *)
(***************************************************************************)
JInt(n) == [type |-> "int", n |-> n]

JStr == [type |-> "str", n |-> 0]

JAbsent == [type |-> "absent", n |-> 0]

\* a parsed JSON value: an object with some of the report's keys, or not an object
JObject(rating, hasFeedback, improvements) ==
    [isObject |-> TRUE, rating |-> rating, hasFeedback |-> hasFeedback,
     improvements |-> improvements]

JNotObject == [isObject |-> FALSE, rating |-> JAbsent, hasFeedback |-> FALSE,
               improvements |-> None]

TooShortReport ==
    JObject(JInt(0), TRUE,
            Some(<<"Complete a longer interview session",
                   "Ensure you answer questions in detail",
                   "Practice mock interviews">>))

NoReport == JNotObject

NoResult == [kind |-> "none", text |-> <<>>, audio |-> None, report |-> NoReport, error |-> ""]

Pair(text, audio) == [NoResult EXCEPT !.kind = "pair", !.text = text, !.audio = audio]

Report(r) == [NoResult EXCEPT !.kind = "report", !.report = r]

Error(msg) == [NoResult EXCEPT !.kind = "error", !.error = msg]

NoEnv == [completion |-> "none", text |-> <<>>, speechRaised |-> FALSE, reply |-> "none"]

(***************************************************************************)
(* Feedback replies and JSON parsing                                       *)
(***************************************************************************)
Improvements == Some(<<"Quote: 'ok' - Suggestion: give an example">>)

\* texts the completion collaborator may return on the feedback path
FeedbackReplies ==
    [malformed  |-> [wellformed |-> FALSE, value |-> JNotObject],
     good       |-> [wellformed |-> TRUE, value |-> JObject(JInt(7), TRUE, Improvements)],
     overrated  |-> [wellformed |-> TRUE, value |-> JObject(JInt(11), TRUE, Improvements)],
     textrating |-> [wellformed |-> TRUE, value |-> JObject(JStr, TRUE, Improvements)],
     zero       |-> [wellformed |-> TRUE, value |-> JObject(JInt(0), TRUE, Improvements)],
     empty      |-> [wellformed |-> TRUE, value |-> JObject(JAbsent, FALSE, None)]]

\* json.loads: the parsed value, or ok = FALSE when it raises
json_loads(reply) ==
    IF reply.wellformed THEN [ok |-> TRUE, value |-> reply.value]
    ELSE [ok |-> FALSE, value |-> JNotObject]

generate_feedback_repair(reply) ==
    LET parsed == json_loads(reply)
    IN  IF parsed.ok THEN Report(parsed.value) ELSE Report(TooShortReport)

\* feedback_json = ...content; return json.loads(feedback_json), inside the try
generate_feedback_parse(reply) ==
    LET parsed == json_loads(reply)
    IN  IF parsed.ok THEN Report(parsed.value)
        ELSE Error("Feedback generation failed")

too_short_off_by_one(messages) == CountRole(messages, "user") <= 3

\* user_messages = [...]; if len(user_messages) < 3
too_short(messages) == CountRole(messages, "user") < 3

(***************************************************************************)
(* State of the service and of the calls in flight                         *)
(***************************************************************************)
MessagesRef(c) == <<c, "messages">>

CopyRef(c) == <<c, "api_messages_copy">>

Refs == {MessagesRef(c) : c \in Calls} \cup {CopyRef(c) : c \in Calls}

list_alias(c) == MessagesRef(c)

\* messages.copy(): a new list object with the same entries
list_copy(c) == CopyRef(c)

NoFiles == [n \in {} |-> [text |-> <<>>, complete |-> FALSE]]

\* base64.b64encode(audio_data).decode("utf-8")
b64encode(data) == [encoding |-> "base64", of |-> data]

InitPhase ==
    /\ transcript = <<>>
    /\ phase = determine_phase(<<>>)

InitService ==
    /\ candidate_name = None
    /\ fs = NoFiles
    /\ nextUuid = 0
    /\ heap = [r \in Refs |-> <<>>]
    /\ pc = [c \in Calls |-> "idle"]
    /\ op = [c \in Calls |-> "none"]
    /\ arg_name = [c \in Calls |-> <<>>]
    /\ arg_messages = [c \in Calls |-> <<>>]
    /\ api_messages = [c \in Calls |-> <<>>]
    /\ response_text = [c \in Calls |-> <<>>]
    /\ sanitized_text = [c \in Calls |-> <<>>]
    /\ filename = [c \in Calls |-> None]
    /\ audio_data = [c \in Calls |-> None]
    /\ removeAttempted = [c \in Calls |-> FALSE]
    /\ env = [c \in Calls |-> NoEnv]
    /\ completionCalls = [c \in Calls |-> 0]
    /\ speechCalls = [c \in Calls |-> 0]
    /\ result = [c \in Calls |-> NoResult]

NoPromptInput ==
    [job_description |-> <<>>, resume_text |-> <<>>, name |-> <<>>,
     difficulty |-> <<>>, phase |-> ""]

NoSanitizeInput == [text |-> <<>>, name |-> None]

NoResponse == [status |-> 0, transcript |-> <<>>, detail |-> ""]

\* no direct call of the prompt assembler is under way
IdlePrompt == p_in = NoPromptInput /\ p_out = None

\* no direct call of the sanitizer is under way
IdleSanitize == s_in = NoSanitizeInput /\ s_out = None

\* no /transcribe request is under way
IdleTranscribe ==
    /\ t_audio = <<>>
    /\ t_pc = "idle"
    /\ t_calls = 0
    /\ t_response = NoResponse

Init == InitPhase /\ InitService /\ IdlePrompt /\ IdleSanitize /\ IdleTranscribe

pureVars == <<p_in, p_out, s_in, s_out, t_audio, t_pc, t_calls, t_response>>

phaseVars == <<transcript, phase>>

serviceVars == <<candidate_name, fs, nextUuid, heap, pc, op, arg_name, arg_messages,
                 api_messages, response_text, sanitized_text, filename, audio_data,
                 removeAttempted, env, completionCalls, speechCalls, result>>

(***************************************************************************)
(* SpecPhase: a transcript that grows by one entry per step, the phase     *)
(* re-derived from it each time                                            *)
(***************************************************************************)
AppendEntry(m) ==
    /\ Len(transcript) < MaxMsgs
    /\ transcript' = Append(transcript, m)
    /\ phase' = determine_phase(transcript')
    /\ UNCHANGED <<serviceVars, pureVars>>

AppendUser == AppendEntry(UserMsg)

AppendAssistant == AppendEntry(AsstMsg)

\* an entry without a "role" key: msg.get("role") is None
AppendOther == AppendEntry([content |-> <<"o","k">>])

NextPhase == AppendUser \/ AppendAssistant \/ AppendOther

SpecPhase == Init /\ [][NextPhase]_vars

(***************************************************************************)
(* SpecInterview: one interview.  The transcript starts empty; a turn      *)
(* derives its phase from the transcript it is given and the client then   *)
(* appends the assistant's reply; the candidate's answers are appended in  *)
(* between.  SpecInterviewLive adds that the interview goes on: a turn     *)
(* that stays possible is eventually taken.                                *)
(***************************************************************************)
\* generate_interview_response: phase = self.determine_phase(messages), and
\* the reply joins the history the next turn is given
InterviewTurn ==
    /\ CountRole(transcript, "assistant") < MaxTurns
    /\ phase' = determine_phase(transcript)
    /\ transcript' = Append(transcript, AsstMsg)
    /\ UNCHANGED <<serviceVars, pureVars>>

CandidateAnswers ==
    /\ CountRole(transcript, "user") < MaxAnswers
    /\ transcript' = Append(transcript, UserMsg)
    /\ UNCHANGED <<phase, serviceVars, pureVars>>

NextInterview == InterviewTurn \/ CandidateAnswers

SpecInterview == Init /\ [][NextInterview]_vars

SpecInterviewLive == SpecInterview /\ WF_vars(InterviewTurn)

(***************************************************************************)
(* Spec: two requests, A and B, served by the shared InterviewService, one *)
(* after the other or overlapping.  A step is a stretch of one call's code *)
(* up to its next external call.                                           *)
(***************************************************************************)
\* chat_endpoint: interview_service.process_interview_turn(...)
StartTurn(c, name, messages) ==
    /\ pc[c] = "idle"
    /\ pc' = [pc EXCEPT ![c] = "gir_prepare"]
    /\ op' = [op EXCEPT ![c] = "turn"]
    /\ arg_name' = [arg_name EXCEPT ![c] = name]
    /\ arg_messages' = [arg_messages EXCEPT ![c] = messages]
    /\ heap' = [heap EXCEPT ![MessagesRef(c)] = messages]
    /\ UNCHANGED <<phaseVars, pureVars, candidate_name, fs, nextUuid, api_messages, response_text,
                   sanitized_text, filename, audio_data, removeAttempted, env,
                   completionCalls, speechCalls, result>>

\* feedback_endpoint: interview_service.generate_feedback(context.messages)
StartFeedback(c, messages) ==
    /\ pc[c] = "idle"
    /\ pc' = [pc EXCEPT ![c] = "fb_guard"]
    /\ op' = [op EXCEPT ![c] = "feedback"]
    /\ arg_messages' = [arg_messages EXCEPT ![c] = messages]
    /\ heap' = [heap EXCEPT ![MessagesRef(c)] = messages]
    /\ UNCHANGED <<phaseVars, pureVars, candidate_name, fs, nextUuid, arg_name, api_messages,
                   response_text, sanitized_text, filename, audio_data, removeAttempted,
                   env, completionCalls, speechCalls, result>>

store_name_once(stored, name) == IF stored = None THEN Some(name) ELSE stored

\* self.candidate_name = candidate_name
store_name(stored, name) == Some(name)

\* generate_interview_response up to the completion request
Prepare(c) ==
    /\ pc[c] = "gir_prepare"
    /\ candidate_name' = store_name(candidate_name, arg_name[c])
    /\ LET messages      == heap[MessagesRef(c)]
           ph            == determine_phase(messages)
           system_prompt == build_interview_system_prompt(
                                JobDescription, ResumeText, arg_name[c], Difficulty, ph)
           copy          == list_copy(c)
           copied        == [heap EXCEPT ![copy] = messages]
           n             == Len(copied[copy])
           annotated     ==
               IF n > 0 /\ Get(copied[copy][n], "role") = Some("user")
               THEN [copied EXCEPT ![copy][n] =
                        Msg("user", Annotated(arg_name[c], copied[copy][n].content))]
               ELSE copied
       IN  /\ heap' = annotated
           /\ api_messages' = [api_messages EXCEPT ![c] =
                                  <<Msg("system", system_prompt)>> \o annotated[copy]]
    /\ pc' = [pc EXCEPT ![c] = "gir_complete"]
    /\ UNCHANGED <<phaseVars, pureVars, fs, nextUuid, op, arg_name, arg_messages, response_text,
                   sanitized_text, filename, audio_data, removeAttempted, env,
                   completionCalls, speechCalls, result>>

\* the completion request returns: return completion.choices[0].message.content
CompletionReturns(c, text) ==
    /\ pc[c] = "gir_complete"
    /\ completionCalls' = [completionCalls EXCEPT ![c] = @ + 1]
    /\ env' = [env EXCEPT ![c].completion = "returned", ![c].text = text]
    /\ response_text' = [response_text EXCEPT ![c] = text]
    /\ pc' = [pc EXCEPT ![c] = "tts_sanitize"]
    /\ UNCHANGED <<phaseVars, pureVars, candidate_name, fs, nextUuid, heap, op, arg_name,
                   arg_messages, api_messages, sanitized_text, filename, audio_data,
                   removeAttempted, speechCalls, result>>

completion_failure_swallowed == [pc |-> "tts_sanitize", result |-> NoResult]

\* except Exception as e: raise Exception(f"Groq API call failed: ..."), which
\* process_interview_turn lets through
completion_failure == [pc |-> "raised", result |-> Error("Groq API call failed")]

CompletionRaises(c) ==
    /\ pc[c] = "gir_complete"
    /\ completionCalls' = [completionCalls EXCEPT ![c] = @ + 1]
    /\ env' = [env EXCEPT ![c].completion = "raised"]
    /\ pc' = [pc EXCEPT ![c] = completion_failure.pc]
    /\ result' = [result EXCEPT ![c] = completion_failure.result]
    /\ UNCHANGED <<phaseVars, pureVars, candidate_name, fs, nextUuid, heap, op, arg_name,
                   arg_messages, api_messages, response_text, sanitized_text, filename,
                   audio_data, removeAttempted, speechCalls>>

\* text_to_speech: sanitized_text = self._sanitize_for_speech(text)
Sanitize(c) ==
    /\ pc[c] = "tts_sanitize"
    /\ sanitized_text' = [sanitized_text EXCEPT ![c] =
                             _sanitize_for_speech(candidate_name, response_text[c])]
    /\ pc' = [pc EXCEPT ![c] = "tts_save"]
    /\ UNCHANGED <<phaseVars, pureVars, candidate_name, fs, nextUuid, heap, op, arg_name,
                   arg_messages, api_messages, response_text, filename, audio_data,
                   removeAttempted, env, completionCalls, speechCalls, result>>

tts_failure_propagates(text) == Error("TTS Error")

\* except Exception as e: print(...); return None, and process_interview_turn
\* returns response_text, audio_data
tts_failure(text) == Pair(text, None)

\* filename = f"temp_{uuid.uuid4()}.wav"
DrawName(c) ==
    /\ nextUuid' = nextUuid + 1
    /\ filename' = [filename EXCEPT ![c] = Some(nextUuid + 1)]
    /\ speechCalls' = [speechCalls EXCEPT ![c] = @ + 1]

TtsFails(c) ==
    /\ env' = [env EXCEPT ![c].speechRaised = TRUE]
    /\ result' = [result EXCEPT ![c] = tts_failure(response_text[c])]
    /\ pc' = [pc EXCEPT ![c] = IF result'[c].kind = "error" THEN "raised" ELSE "done"]

\* speak.v("1").save(filename, ...) writes the audio file
SaveOk(c) ==
    /\ pc[c] = "tts_save"
    /\ DrawName(c)
    /\ fs' = (filename'[c][1] :> [text |-> sanitized_text[c], complete |-> TRUE]) @@ fs
    /\ pc' = [pc EXCEPT ![c] = "tts_read"]
    /\ UNCHANGED <<phaseVars, pureVars, candidate_name, heap, op, arg_name, arg_messages,
                   api_messages, response_text, sanitized_text, audio_data,
                   removeAttempted, env, completionCalls, result>>

\* save raises before it has created the file
SaveRaises(c) ==
    /\ pc[c] = "tts_save"
    /\ DrawName(c)
    /\ TtsFails(c)
    /\ UNCHANGED <<phaseVars, pureVars, candidate_name, fs, heap, op, arg_name, arg_messages,
                   api_messages, response_text, sanitized_text, audio_data,
                   removeAttempted, completionCalls>>

\* save raises while writing the file it has created
SaveRaisesAfterCreate(c) ==
    /\ pc[c] = "tts_save"
    /\ DrawName(c)
    /\ fs' = (filename'[c][1] :> [text |-> sanitized_text[c], complete |-> FALSE]) @@ fs
    /\ TtsFails(c)
    /\ UNCHANGED <<phaseVars, pureVars, candidate_name, heap, op, arg_name, arg_messages,
                   api_messages, response_text, sanitized_text, audio_data,
                   removeAttempted, completionCalls>>

\* with open(filename, "rb") as audio_file: read and encode
ReadOk(c) ==
    /\ pc[c] = "tts_read"
    /\ filename[c][1] \in DOMAIN fs
    /\ audio_data' = [audio_data EXCEPT ![c] = Some(b64encode(fs[filename[c][1]]))]
    /\ pc' = [pc EXCEPT ![c] = "tts_cleanup"]
    /\ UNCHANGED <<phaseVars, pureVars, candidate_name, fs, nextUuid, heap, op, arg_name,
                   arg_messages, api_messages, response_text, sanitized_text, filename,
                   removeAttempted, env, completionCalls, speechCalls, result>>

\* open or read raises
ReadRaises(c) ==
    /\ pc[c] = "tts_read"
    /\ TtsFails(c)
    /\ UNCHANGED <<phaseVars, pureVars, candidate_name, fs, nextUuid, heap, op, arg_name,
                   arg_messages, api_messages, response_text, sanitized_text, filename,
                   audio_data, removeAttempted, completionCalls, speechCalls>>

process_interview_turn_returns_spoken(c) == Pair(sanitized_text[c], audio_data[c])

\* process_interview_turn: return response_text, audio_data
process_interview_turn_returns(c) == Pair(response_text[c], audio_data[c])

\* if os.path.exists(filename): os.remove(filename); return base64_audio
CleanupOk(c) ==
    /\ pc[c] = "tts_cleanup"
    /\ IF filename[c][1] \in DOMAIN fs
       THEN /\ fs' = [n \in DOMAIN fs \ {filename[c][1]} |-> fs[n]]
            /\ removeAttempted' = [removeAttempted EXCEPT ![c] = TRUE]
       ELSE UNCHANGED <<fs, removeAttempted>>
    /\ result' = [result EXCEPT ![c] = process_interview_turn_returns(c)]
    /\ pc' = [pc EXCEPT ![c] = "done"]
    /\ UNCHANGED <<phaseVars, pureVars, candidate_name, nextUuid, heap, op, arg_name, arg_messages,
                   api_messages, response_text, sanitized_text, filename, audio_data,
                   env, completionCalls, speechCalls>>

\* os.remove raises
CleanupRaises(c) ==
    /\ pc[c] = "tts_cleanup"
    /\ filename[c][1] \in DOMAIN fs
    /\ removeAttempted' = [removeAttempted EXCEPT ![c] = TRUE]
    /\ TtsFails(c)
    /\ UNCHANGED <<phaseVars, pureVars, candidate_name, fs, nextUuid, heap, op, arg_name,
                   arg_messages, api_messages, response_text, sanitized_text, filename,
                   audio_data, completionCalls, speechCalls>>

\* generate_feedback up to the completion request
FeedbackGuard(c) ==
    /\ pc[c] = "fb_guard"
    /\ LET messages == heap[MessagesRef(c)]
       IN  IF too_short(messages)
           THEN /\ result' = [result EXCEPT ![c] = Report(TooShortReport)]
                /\ pc' = [pc EXCEPT ![c] = "done"]
                /\ UNCHANGED api_messages
           ELSE /\ api_messages' = [api_messages EXCEPT ![c] =
                       <<Msg("system", build_feedback_system_prompt)>> \o messages]
                /\ pc' = [pc EXCEPT ![c] = "fb_complete"]
                /\ UNCHANGED result
    /\ UNCHANGED <<phaseVars, pureVars, candidate_name, fs, nextUuid, heap, op, arg_name,
                   arg_messages, response_text, sanitized_text, filename, audio_data,
                   removeAttempted, env, completionCalls, speechCalls>>

\* the completion request returns and its content is parsed
FeedbackCompletionReturns(c, r) ==
    /\ pc[c] = "fb_complete"
    /\ completionCalls' = [completionCalls EXCEPT ![c] = @ + 1]
    /\ env' = [env EXCEPT ![c].completion = "returned", ![c].reply = r]
    /\ result' = [result EXCEPT ![c] = generate_feedback_parse(FeedbackReplies[r])]
    /\ pc' = [pc EXCEPT ![c] = IF result'[c].kind = "error" THEN "raised" ELSE "done"]
    /\ UNCHANGED <<phaseVars, pureVars, candidate_name, fs, nextUuid, heap, op, arg_name,
                   arg_messages, api_messages, response_text, sanitized_text, filename,
                   audio_data, removeAttempted, speechCalls>>

\* the completion request raises: raise Exception(f"Feedback generation failed: ...")
FeedbackCompletionRaises(c) ==
    /\ pc[c] = "fb_complete"
    /\ completionCalls' = [completionCalls EXCEPT ![c] = @ + 1]
    /\ env' = [env EXCEPT ![c].completion = "raised"]
    /\ result' = [result EXCEPT ![c] = Error("Feedback generation failed")]
    /\ pc' = [pc EXCEPT ![c] = "raised"]
    /\ UNCHANGED <<phaseVars, pureVars, candidate_name, fs, nextUuid, heap, op, arg_name,
                   arg_messages, api_messages, response_text, sanitized_text, filename,
                   audio_data, removeAttempted, speechCalls>>

Next ==
    \E c \in Calls :
        \/ \E name \in Names, messages \in Histories : StartTurn(c, name, messages)
        \/ \E messages \in Histories : StartFeedback(c, messages)
        \/ Prepare(c)
        \/ \E text \in CompletionTexts : CompletionReturns(c, text)
        \/ CompletionRaises(c)
        \/ Sanitize(c)
        \/ SaveOk(c)
        \/ SaveRaises(c)
        \/ SaveRaisesAfterCreate(c)
        \/ ReadOk(c)
        \/ ReadRaises(c)
        \/ CleanupOk(c)
        \/ CleanupRaises(c)
        \/ FeedbackGuard(c)
        \/ \E r \in DOMAIN FeedbackReplies : FeedbackCompletionReturns(c, r)
        \/ FeedbackCompletionRaises(c)

Spec == Init /\ [][Next]_vars

(***************************************************************************)
(* SpecSequential: the same two requests served strictly one after the     *)
(* other: a call takes a step only while the other one is not running      *)
(***************************************************************************)
OthersAtRest(c) == \A d \in Calls \ {c} : pc[d] \in {"idle", "done", "raised"}

NextSequential ==
    \E c \in Calls :
        \/ OthersAtRest(c) /\ \E name \in Names, messages \in Histories :
                                  StartTurn(c, name, messages)
        \/ OthersAtRest(c) /\ \E messages \in Histories : StartFeedback(c, messages)
        \/ OthersAtRest(c) /\ Prepare(c)
        \/ OthersAtRest(c) /\ \E text \in CompletionTexts : CompletionReturns(c, text)
        \/ OthersAtRest(c) /\ CompletionRaises(c)
        \/ OthersAtRest(c) /\ Sanitize(c)
        \/ OthersAtRest(c) /\ SaveOk(c)
        \/ OthersAtRest(c) /\ SaveRaises(c)
        \/ OthersAtRest(c) /\ SaveRaisesAfterCreate(c)
        \/ OthersAtRest(c) /\ ReadOk(c)
        \/ OthersAtRest(c) /\ ReadRaises(c)
        \/ OthersAtRest(c) /\ CleanupOk(c)
        \/ OthersAtRest(c) /\ CleanupRaises(c)
        \/ OthersAtRest(c) /\ FeedbackGuard(c)
        \/ OthersAtRest(c) /\ \E r \in DOMAIN FeedbackReplies :
                                  FeedbackCompletionReturns(c, r)
        \/ OthersAtRest(c) /\ FeedbackCompletionRaises(c)

SpecSequential == Init /\ [][NextSequential]_vars

(***************************************************************************)
(* SpecPrompt: one direct call of build_interview_system_prompt on         *)
(* arguments drawn from the sets below                                     *)
(***************************************************************************)
\* difficulty arguments: the three keys, other letter cases, unknown values
Difficulties ==
    { Easy, Medium, Hard, <<"E","A","S","Y">>, <<"H","a","r","d">>,
      <<"e","x","p","e","r","t">>, <<>> }

\* phase arguments: the four keys, another letter case, unknown values
PhaseArgs ==
    { "INTRODUCTION", "TECHNICAL", "BEHAVIORAL", "WRAP_UP", "technical", "CODING", "" }

JobDescriptions == { JobDescription, <<"S","Q","L"," ","d","e","v">> }

ResumeTexts == { ResumeText, <<>> }

PromptInputs ==
    [job_description : JobDescriptions, resume_text : ResumeTexts, name : Names \cup {<<>>},
     difficulty : Difficulties, phase : PhaseArgs]

InitPrompt ==
    /\ InitPhase /\ InitService /\ IdleSanitize /\ IdleTranscribe
    /\ p_in \in PromptInputs
    /\ p_out = None

BuildPrompt ==
    /\ p_out = None
    /\ p_out' = Some(build_interview_system_prompt(
                        p_in.job_description, p_in.resume_text, p_in.name,
                        p_in.difficulty, p_in.phase))
    /\ UNCHANGED <<phaseVars, serviceVars, p_in, s_in, s_out, t_audio, t_pc, t_calls,
                   t_response>>

NextPrompt == BuildPrompt

SpecPrompt == InitPrompt /\ [][NextPrompt]_vars

(***************************************************************************)
(* SpecSanitize: one direct call of _sanitize_for_speech, on a text put    *)
(* together from at most MaxPieces pieces and with self.candidate_name     *)
(* holding one of SanitizeNames                                            *)
(***************************************************************************)
ZayeemLive == <<"Z","a","y","e","e","m"," ","L","i","v","e">>

SanitizeNames == {None, Some(Zayeem), Some(Bob), Some(ZayeemLive)}

TableTerms == {replace_map[k][1] : k \in 1..Len(replace_map)}

TableReplacements == {replace_map[k][2] : k \in 1..Len(replace_map)} \cup {ZaaEem}

\* some table terms, other letter cases of them, names, and glue
Pieces ==
    { <<"A","W","S">>, <<"a","w","s">>, <<"A","w","s">>, <<"S","Q","L">>,
      <<"U","I">>, <<"C","I","/","C","D">>, <<"S","a","a","S">>,
      <<"K","u","b","e","r","n","e","t","e","s">>,
      <<"r","e","s","u","m","e">>, <<"R","e","s","u","m","e">>,
      <<"R","E","S","U","M","E">>, <<"l","i","v","e">>,
      Zayeem, ZayeemLive, Bob, <<" ">>, <<"_">>, <<"M","y">> }

RECURSIVE TextsUpTo(_)
TextsUpTo(n) ==
    IF n = 0 THEN {<<>>}
    ELSE LET shorter == TextsUpTo(n - 1)
         IN  shorter \cup {t \o piece : t \in shorter, piece \in Pieces}

\* the names in other letter cases, inside a sentence
NameTexts ==
    { <<"z","a","y","e","e","m">>,
      <<"H","i"," ","Z","A","Y","E","E","M",","," ","z","a","y","e","e","m","!">>,
      <<"z","a","y","e","e","m"," ","l","i","v","e">>,
      <<"b","o","b">> }

Texts == TextsUpTo(MaxPieces) \cup TableTerms \cup TableReplacements \cup NameTexts

InitSanitize ==
    /\ InitPhase /\ InitService /\ IdlePrompt /\ IdleTranscribe
    /\ s_in \in [text : Texts, name : SanitizeNames]
    /\ s_out = None

SanitizeText ==
    /\ s_out = None
    /\ s_out' = Some(_sanitize_for_speech(s_in.name, s_in.text))
    /\ UNCHANGED <<phaseVars, serviceVars, p_in, p_out, s_in, t_audio, t_pc, t_calls,
                   t_response>>

NextSanitize == SanitizeText

SpecSanitize == InitSanitize /\ [][NextSanitize]_vars

(***************************************************************************)
(* SpecTranscribe: one POST /transcribe request                            *)
(***************************************************************************)
Bytes == {0, 255}

RECURSIVE BytesUpTo(_)
BytesUpTo(n) ==
    IF n = 0 THEN {<<>>}
    ELSE LET shorter == BytesUpTo(n - 1)
         IN  shorter \cup {Append(a, b) : a \in shorter, b \in Bytes}

Uploads == BytesUpTo(MaxAudioLen)

\* what Deepgram may answer
Transcripts == {<<>>, <<"h","i">>}

\* what Deepgram's client, or reading its response, may raise
TranscribeErrors ==
    { [type |-> "Exception", msg |-> "timeout"],
      [type |-> "ValueError", msg |-> "bad option"],
      [type |-> "IndexError", msg |-> "list index out of range"],
      [type |-> "Exception", msg |-> ""] }

\* what reading the upload may raise
ReadErrors == { [type |-> "OSError", msg |-> "read failed"] }

empty_audio_unchecked(audio) == FALSE

\* not audio_data or len(audio_data) == 0
empty_audio(audio) == audio = <<>> \/ Len(audio) = 0

\* raise Exception(f"Transcription failed: {str(e)}")
TranscriptionFailed(e) == [type |-> "Exception", msg |-> "Transcription failed: " \o e.msg]

\* except ValueError -> 400, except Exception -> 500
status_of(e) == IF e.type = "ValueError" THEN 400 ELSE 500

\* raise HTTPException(status_code=..., detail=str(e))
HTTPException(e) == [status |-> status_of(e), transcript |-> <<>>, detail |-> e.msg]

InitTranscribe ==
    /\ InitPhase /\ InitService /\ IdlePrompt /\ IdleSanitize
    /\ t_audio \in Uploads
    /\ t_pc = "request"
    /\ t_calls = 0
    /\ t_response = NoResponse

transcribeRest == <<phaseVars, serviceVars, p_in, p_out, s_in, s_out, t_audio>>

\* audio_data = await file.read()
FileRead ==
    /\ t_pc = "request"
    /\ t_pc' = "transcribe_audio"
    /\ UNCHANGED <<transcribeRest, t_calls, t_response>>

FileReadRaises ==
    /\ t_pc = "request"
    /\ \E e \in ReadErrors : t_response' = HTTPException(e)
    /\ t_pc' = "read_raised"
    /\ UNCHANGED <<transcribeRest, t_calls>>

\* the guard of transcribe_audio raises ValueError, which the endpoint catches
RejectEmpty ==
    /\ t_pc = "transcribe_audio"
    /\ empty_audio(t_audio)
    /\ t_response' = HTTPException([type |-> "ValueError", msg |-> "Empty audio file provided"])
    /\ t_pc' = "value_error"
    /\ UNCHANGED <<transcribeRest, t_calls>>

\* the request to self.client.listen.rest.v("1").transcribe_file goes out
TranscribeFile ==
    /\ t_pc = "transcribe_audio"
    /\ ~empty_audio(t_audio)
    /\ t_calls' = t_calls + 1
    /\ t_pc' = "transcribe_file"
    /\ UNCHANGED <<transcribeRest, t_response>>

TranscribeFileReturns ==
    /\ t_pc = "transcribe_file"
    /\ \E heard \in Transcripts :
           t_response' = [status |-> 200, transcript |-> heard, detail |-> ""]
    /\ t_pc' = "returned"
    /\ UNCHANGED <<transcribeRest, t_calls>>

TranscribeFileRaises ==
    /\ t_pc = "transcribe_file"
    /\ \E e \in TranscribeErrors : t_response' = HTTPException(TranscriptionFailed(e))
    /\ t_pc' = "transcription_failed"
    /\ UNCHANGED <<transcribeRest, t_calls>>

NextTranscribe ==
    \/ FileRead
    \/ FileReadRaises
    \/ RejectEmpty
    \/ TranscribeFile
    \/ TranscribeFileReturns
    \/ TranscribeFileRaises

SpecTranscribe == InitTranscribe /\ [][NextTranscribe]_vars

(***************************************************************************)
(* Properties                                                              *)
(***************************************************************************)
IsAssistant(m) == "role" \in DOMAIN m /\ m.role = "assistant"

IsUser(m) == "role" \in DOMAIN m /\ m.role = "user"

AssistantCount(ms) == Cardinality({i \in 1..Len(ms) : IsAssistant(ms[i])})

UserCount(ms) == Cardinality({i \in 1..Len(ms) : IsUser(ms[i])})

PhaseTable(a) ==
    CASE a \in 0..1 -> "INTRODUCTION"
      [] a \in 2..4 -> "TECHNICAL"
      [] a \in 5..7 -> "BEHAVIORAL"
      [] a >= 8     -> "WRAP_UP"

Rank(ph) ==
    CASE ph = "INTRODUCTION" -> 1
      [] ph = "TECHNICAL"    -> 2
      [] ph = "BEHAVIORAL"   -> 3
      [] ph = "WRAP_UP"      -> 4

Returned(c) == pc[c] \in {"done", "raised"}

\* C1: the phase derived from any transcript is the one the threshold table
\* gives for its number a of assistant entries (0..1 INTRODUCTION, 2..4
\* TECHNICAL, 5..7 BEHAVIORAL, 8 and more WRAP_UP), and it is the phase of the
\* same transcript with every non-assistant entry removed.
C1_PhaseByAssistantCount ==
    /\ phase = PhaseTable(AssistantCount(transcript))
    /\ phase = determine_phase(SelectSeq(transcript, IsAssistant))

C1_Witness ==
    /\ AssistantCount(transcript) = 8
    /\ UserCount(transcript) >= 1
    /\ phase = "WRAP_UP"

\* C2: along a growing transcript the phase never goes back: the phase of
\* every prefix of the transcript is not later than the phase derived from the
\* whole transcript.
C2_PhaseMonotone ==
    \A k \in 0..Len(transcript) :
        Rank(determine_phase(SubSeq(transcript, 1, k))) <= Rank(phase)

C2_Witness ==
    /\ phase = "WRAP_UP"
    /\ \E k \in 0..Len(transcript) :
           determine_phase(SubSeq(transcript, 1, k)) = "TECHNICAL"

\* C3: when a turn has returned, the temp file its text_to_speech named has
\* been deleted, or its deletion has been attempted.
C3_TempFileCleanedUp ==
    \A c \in Calls :
        (op[c] = "turn" /\ Returned(c) /\ filename[c] # None)
            => (filename[c][1] \notin DOMAIN fs \/ removeAttempted[c])

\* C4: the text a turn hands to speech synthesis depends only on that call's
\* own arguments and replies: it is the sanitizer applied to the call's own
\* completion text under the call's own candidate name.
C4_CallsIndependent ==
    \A c \in Calls :
        (op[c] = "turn" /\ pc[c] \in {"tts_save", "tts_read", "tts_cleanup", "done"})
            => sanitized_text[c]
                 = _sanitize_for_speech(Some(arg_name[c]), env[c].text)

\* C5: when the completion succeeded and a step of speech synthesis raised,
\* the turn returns the pair (completion text, None) and raises nothing.
C5_SpeechFailureNonFatal ==
    \A c \in Calls :
        (op[c] = "turn" /\ env[c].completion = "returned" /\ env[c].speechRaised)
            => /\ pc[c] = "done"
               /\ result[c] = Pair(env[c].text, None)

C5_Witness ==
    \E c \in Calls :
        /\ op[c] = "turn"
        /\ env[c].speechRaised
        /\ filename[c] # None
        /\ result[c].kind = "pair"

\* C6: when the completion request of a turn raised, the turn has raised an
\* error with a descriptive message, after exactly one completion request and
\* no speech-synthesis request.
C6_CompletionFailureFatal ==
    \A c \in Calls :
        (op[c] = "turn" /\ env[c].completion = "raised")
            => /\ pc[c] = "raised"
               /\ result[c] = Error("Groq API call failed")
               /\ completionCalls[c] = 1
               /\ speechCalls[c] = 0
               /\ filename[c] = None

C6_Witness ==
    \E c \in Calls :
        op[c] = "turn" /\ env[c].completion = "raised" /\ pc[c] = "raised"

\* C7: a finished generate_feedback with fewer than 3 user entries returned
\* the fixed too-short report and called no collaborator; with 3 or more user
\* entries it made exactly one completion request.
C7_ShortInterviewGuard ==
    \A c \in Calls :
        (op[c] = "feedback" /\ Returned(c))
            => IF UserCount(arg_messages[c]) < 3
               THEN /\ result[c] = Report(TooShortReport)
                    /\ completionCalls[c] = 0
                    /\ speechCalls[c] = 0
               ELSE completionCalls[c] = 1

C7_Witness ==
    \E c, d \in Calls :
        /\ op[c] = "feedback" /\ Returned(c) /\ UserCount(arg_messages[c]) = 1
        /\ result[c].report.rating = JInt(0)
        /\ op[d] = "feedback" /\ Returned(d) /\ UserCount(arg_messages[d]) = 3

\* C8: on the non-guarded feedback path, a completion failure or a reply that
\* is not valid JSON makes generate_feedback raise, after exactly one
\* completion request, and no report is returned.
C8_FeedbackFailureFatal ==
    \A c \in Calls :
        (/\ op[c] = "feedback"
         /\ \/ env[c].completion = "raised"
            \/ /\ env[c].completion = "returned"
               /\ ~FeedbackReplies[env[c].reply].wellformed)
            => /\ pc[c] = "raised"
               /\ result[c] = Error("Feedback generation failed")
               /\ completionCalls[c] = 1

C8_Witness ==
    \E c \in Calls :
        /\ op[c] = "feedback"
        /\ env[c].completion = "returned"
        /\ env[c].reply = "malformed"
        /\ pc[c] = "raised"

\* C9: every report generate_feedback returns has the fields rating, feedback
\* and improvements, with rating an integer in 1..10, or 0 exactly when the
\* too-short guard fired.
C9_ReportWellFormed ==
    \A c \in Calls :
        (op[c] = "feedback" /\ result[c].kind = "report")
            => LET r == result[c].report
                   guarded == completionCalls[c] = 0
               IN  /\ r.isObject
                   /\ r.hasFeedback
                   /\ r.improvements # None
                   /\ r.rating.type = "int"
                   /\ r.rating.n \in 0..10
                   /\ (r.rating.n = 0) <=> guarded

\* C10: the caller's history is never changed by a call: from its start to
\* its return or raise, the caller's list holds the entries it held when the
\* call started, also when the last entry is annotated in the request.
C10_HistoryReadOnly ==
    \A c \in Calls :
        pc[c] # "idle" => heap[MessagesRef(c)] = arg_messages[c]

C10_Witness ==
    \E c \in Calls :
        /\ op[c] = "turn"
        /\ Returned(c)
        /\ arg_messages[c] # <<>>
        /\ IsUser(arg_messages[c][Len(arg_messages[c])])
        /\ api_messages[c][Len(api_messages[c])].content
             = Annotated(arg_name[c], arg_messages[c][Len(arg_messages[c])].content)

HasToken(prompt, tok) == \E i \in 1..Len(prompt) : prompt[i] = tok

\* the difficulty blocks of which the prompt carries a token
DifficultyBlocksIn(prompt) ==
    {k \in DOMAIN difficulty_instructions :
        \E i \in 1..Len(difficulty_instructions[k]) :
            HasToken(prompt, difficulty_instructions[k][i])}

\* the phase blocks of which the prompt carries a fixed token
PhaseBlocksIn(prompt) ==
    {k \in DOMAIN phase_instructions :
        \E i \in 1..Len(phase_instructions[k]) :
            /\ phase_instructions[k][i] # Placeholder
            /\ HasToken(prompt, phase_instructions[k][i])}

ExpectedPhaseBlock(ph) ==
    IF ph \in {"INTRODUCTION", "TECHNICAL", "BEHAVIORAL", "WRAP_UP"} THEN ph
    ELSE "INTRODUCTION"

\* C11 as stated: a difficulty other than easy/medium/hard selects the medium
\* block, a phase other than the four phases selects the INTRODUCTION block,
\* and a recognized value selects exactly its own block.
C11_Original ==
    p_out # None
        => /\ DifficultyBlocksIn(p_out[1])
                = {IF p_in.difficulty \in {Easy, Medium, Hard}
                   THEN p_in.difficulty ELSE Medium}
           /\ PhaseBlocksIn(p_out[1]) = {ExpectedPhaseBlock(p_in.phase)}

\* C11, amended: the difficulty is matched ignoring letter case: a difficulty
\* whose lower-case form is easy, medium or hard selects exactly that block
\* and any other selects the medium block; the phase is matched exactly, any
\* value other than the four phases selecting the INTRODUCTION block.
C11_SelectorFallback ==
    p_out # None
        => /\ DifficultyBlocksIn(p_out[1])
                = {IF \E k \in {Easy, Medium, Hard} :
                          /\ Len(k) = Len(p_in.difficulty)
                          /\ \A i \in 1..Len(k) : Lower(p_in.difficulty[i]) = k[i]
                   THEN CHOOSE k \in {Easy, Medium, Hard} :
                          /\ Len(k) = Len(p_in.difficulty)
                          /\ \A i \in 1..Len(k) : Lower(p_in.difficulty[i]) = k[i]
                   ELSE Medium}
           /\ PhaseBlocksIn(p_out[1]) = {ExpectedPhaseBlock(p_in.phase)}

C11_Witness ==
    /\ p_out # None
    /\ p_in.difficulty = <<"E","A","S","Y">>
    /\ p_in.phase = "CODING"
    /\ DifficultyBlocksIn(p_out[1]) = {Easy}
    /\ PhaseBlocksIn(p_out[1]) = {"INTRODUCTION"}

\* C13: the prompt returned carries the supplied job description, resume
\* text and candidate name character for character, each at its place in the
\* template, and no candidate-name placeholder is left in it.
C13_PromptCarriesInputs ==
    p_out # None
        => /\ Contains(p_out[1],
                       <<"<JOB DESCRIPTION>">> \o p_in.job_description
                       \o <<"<CANDIDATE RESUME>">> \o p_in.resume_text
                       \o <<"<You are evaluating>">> \o p_in.name
                       \o <<"<conduct rules: address the candidate as>">>)
           /\ Contains(p_out[1], <<"<official name is>">> \o p_in.name
                                 \o <<"<always use>">> \o p_in.name
                                 \o <<"<CURRENT PHASE>">>)
           /\ ~HasToken(p_out[1], Placeholder)

C13_Witness ==
    /\ p_out # None
    /\ p_in.phase = "WRAP_UP"
    /\ p_in.name = Zayeem
    /\ p_in.job_description = <<"S","Q","L"," ","d","e","v">>
    /\ Contains(p_out[1], <<"<thank you for your time today,>">> \o Zayeem)

\* C12: the system prompt of a turn's completion request carries the phase
\* block of the phase the transcript is in, and no other phase block: the
\* INTRODUCTION block for an empty history, the WRAP_UP block from 8
\* assistant entries on.
C12_PromptPhaseOfTurn ==
    \A c \in Calls :
        (op[c] = "turn" /\ api_messages[c] # <<>>)
            => LET prompt == api_messages[c][1].content
                   a      == AssistantCount(arg_messages[c])
               IN  /\ PhaseBlocksIn(prompt) = {PhaseTable(a)}
                   /\ arg_messages[c] = <<>>
                        => HasToken(prompt,
                             "<ask for an introduction, no technical questions; Hi>")
                   /\ a >= 8
                        => HasToken(prompt,
                             "<WRAP_UP: close gracefully, no more questions; thank>")

C12_Witness ==
    \E c, d \in Calls :
        /\ op[c] = "turn" /\ api_messages[c] # <<>>
        /\ AssistantCount(arg_messages[c]) >= 9
        /\ PhaseBlocksIn(api_messages[c][1].content) = {"WRAP_UP"}
        /\ op[d] = "turn" /\ api_messages[d] # <<>>
        /\ arg_messages[d] = <<>>
        /\ PhaseBlocksIn(api_messages[d][1].content) = {"INTRODUCTION"}


(***************************************************************************)
(* Properties of the speech sanitizer                                      *)
(***************************************************************************)
HasNameRule(self_name) ==
    self_name # None /\ Len(self_name[1]) > 0 /\ Contains(self_name[1], Zayeem)

\* the fixed rules whose pattern matches t at position i
MatchingRules(t, i) == {k \in 1..Len(replace_map) : MatchAt(t, i, replace_map[k][1])}

MinOf(S) == CHOOSE k \in S : \A j \in S : k <= j

MaxOf(S) == CHOOSE k \in S : \A j \in S : k >= j

RECURSIVE OnePass(_, _, _)
\* one left-to-right pass over t: a whole-word occurrence of a table term
\* becomes the replacement of a term it is an occurrence of (the first such
\* term of the table, or the last), everything else is copied
OnePass(t, i, first) ==
    IF i > Len(t) THEN <<>>
    ELSE LET M == MatchingRules(t, i)
         IN  IF M = {} THEN <<t[i]>> \o OnePass(t, i + 1, first)
             ELSE LET k == IF first THEN MinOf(M) ELSE MaxOf(M)
                  IN  replace_map[k][2] \o OnePass(t, i + Len(replace_map[k][1]), first)

\* C14: with no name rule in play, every whole-word occurrence of a table
\* term, in any letter case, is replaced by the replacement of that term
\* (of each table term it is an occurrence of), and all other text, table
\* terms inside longer words included, is left as it was
C14_TermReplacedByItsReplacement ==
    (s_out # None /\ ~HasNameRule(s_in.name))
        => /\ s_out[1] = OnePass(s_in.text, 1, TRUE)
           /\ s_out[1] = OnePass(s_in.text, 1, FALSE)

RECURSIVE InOrder(_, _)
\* the rules one after another, each on the output of the one before
InOrder(rules, text) ==
    IF rules = <<>> THEN text
    ELSE InOrder(Tail(rules), re_sub(Head(rules)[1], Head(rules)[2], text))

\* C20: the result is the fixed rules applied one after another in table
\* order and then the name rule on their output; a name that a fixed rule
\* has rewritten is not turned into the name's respelling
C20_SequentialNameRuleLast ==
    s_out # None
        => LET fixed == InOrder(replace_map, s_in.text)
           IN  /\ s_out[1] = IF HasNameRule(s_in.name)
                             THEN re_sub(s_in.name[1], ZaaEem, fixed)
                             ELSE fixed
               /\ (HasNameRule(s_in.name) /\ s_in.text = s_in.name[1]
                       /\ fixed # s_in.text)
                      => /\ s_out[1] = fixed
                         /\ ~Contains(s_out[1], ZaaEem)

C20_Witness ==
    /\ s_in = [text |-> ZayeemLive, name |-> Some(ZayeemLive)]
    /\ s_out = Some(Zayeem \o <<" ","l","y","e","-","v">>)
    /\ re_sub(ZayeemLive, ZaaEem, s_in.text) = ZaaEem

(***************************************************************************)
(* Properties of POST /transcribe                                          *)
(***************************************************************************)
\* C16: an empty upload never reaches transcribe_file and is answered 400
\* by the invalid-input branch; only an empty upload is answered 400; a
\* failure of the transcription request is answered 500 with the wrapped
\* message as detail, after exactly one request
C16_EmptyAudioRejected ==
    /\ t_audio = <<>>
         => /\ t_calls = 0
            /\ t_pc \notin {"transcribe_file", "returned", "transcription_failed"}
    /\ t_pc = "value_error"
         => /\ t_audio = <<>>
            /\ t_response.status = 400
            /\ t_response.detail = "Empty audio file provided"
    /\ t_response.status = 400 => t_pc = "value_error"
    /\ t_pc = "transcription_failed"
         => /\ t_calls = 1
            /\ t_response.status = 500
            /\ t_response.detail # ""
    /\ t_pc = "read_raised" => t_response.status = 500 /\ t_calls = 0
    /\ t_pc = "returned" => t_response.status = 200 /\ t_calls = 1

C16_Witness ==
    /\ t_audio = <<>>
    /\ t_pc = "value_error"
    /\ t_calls = 0
    /\ t_response.status = 400

(***************************************************************************)
(* Properties of one interview turn's requests                             *)
(***************************************************************************)
\* C17: when a turn has returned and its text_to_speech had read the audio
\* back (so only the deletion can have failed), the turn returns that audio
C17_DeleteFailureKeepsAudio ==
    \A c \in Calls :
        (op[c] = "turn" /\ pc[c] = "done" /\ audio_data[c] # None)
            => result[c].audio = audio_data[c]

\* C18: the completion request of a turn is the system prompt followed by
\* the history, same length and order; the last entry is replaced by the
\* "[System verified name: <name>] " annotation of its content exactly when
\* it is user-authored; every other entry is passed as it is
C18_RequestShape ==
    \A c \in Calls :
        (op[c] = "turn" /\ api_messages[c] # <<>>)
            => LET history == arg_messages[c]
                   request == api_messages[c]
                   n       == Len(history)
               IN  /\ Len(request) = n + 1
                   /\ request[1].role = "system"
                   /\ \A i \in 1..(n - 1) : request[i + 1] = history[i]
                   /\ n > 0 =>
                        IF IsUser(history[n])
                        THEN request[n + 1] =
                                 Msg("user", VerifiedNamePrefix \o arg_name[c]
                                             \o <<"]", " ">> \o history[n].content)
                        ELSE request[n + 1] = history[n]

C18_Witness ==
    \E c \in Calls :
        /\ op[c] = "turn"
        /\ Len(api_messages[c]) = 7
        /\ IsUser(arg_messages[c][6])
        /\ api_messages[c][7].content # arg_messages[c][6].content
        /\ api_messages[c][3] = UserMsg

\* each completion text with the rules applied to it in order, under each
\* value the service's candidate_name can hold
SanitizedCompletions ==
    { [text |-> t, spoken |-> InOrder(RulesFor(self_name), t)] :
          t \in CompletionTexts, self_name \in {None} \cup {Some(n) : n \in Names} }

\* C19: a turn makes at most one completion request and at most one speech
\* request; the speech request comes only after the completion returned,
\* and its text is the sanitizer applied to that completion's text; once
\* past the completion request the turn has made exactly one
C19_LinearTurn ==
    \A c \in Calls :
        op[c] = "turn"
            => /\ completionCalls[c] <= 1
               /\ speechCalls[c] <= 1
               /\ pc[c] \notin {"gir_prepare", "gir_complete"} => completionCalls[c] = 1
               /\ env[c].completion # "returned" => speechCalls[c] = 0
               /\ speechCalls[c] = 1
                    => /\ completionCalls[c] = 1
                       /\ response_text[c] = env[c].text
                       /\ [text |-> env[c].text, spoken |-> sanitized_text[c]]
                              \in SanitizedCompletions
               /\ (pc[c] = "done") => result[c].text = env[c].text

C19_Witness ==
    \E c \in Calls :
        /\ op[c] = "turn"
        /\ pc[c] = "done"
        /\ completionCalls[c] = 1
        /\ speechCalls[c] = 1
        /\ env[c].text = <<"A","W","S">>
        /\ sanitized_text[c] = <<"A","."," ","W","."," ","S",".">>
        /\ result[c].audio # None

(***************************************************************************)
(* Properties of the name rule and of the two resume rules                 *)
(***************************************************************************)
\* number of whole-word, case-insensitive occurrences of term in s
CountMatches(s, term) == Cardinality({i \in 1..Len(s) : MatchAt(s, i, term)})

\* number of places where s holds w letter for letter
CountExact(s, w) ==
    Cardinality({i \in 1..(Len(s) - Len(w) + 1) : SubSeq(s, i, i + Len(w) - 1) = w})

resume == <<"r","e","s","u","m","e">>

CapitalResumeRule == CHOOSE k \in 1..Len(replace_map) : replace_map[k][1] = <<"R","e","s","u","m","e">>

\* C25 as stated: every whole-word occurrence of resume in any letter case
\* becomes lowercase "reh-zoo-may", the capitalised rule matches nothing,
\* and the output never contains "Reh-zoo-may"
C25_Original ==
    s_out # None
        => /\ CountMatches(s_out[1], resume) = 0
           /\ CountMatches(InOrder(SubSeq(replace_map, 1, CapitalResumeRule - 1), s_in.text),
                           replace_map[CapitalResumeRule][1]) = 0
           /\ ~Contains(s_out[1], replace_map[CapitalResumeRule][2])

\* C25: every whole-word occurrence of resume in any letter case becomes
\* lowercase "reh-zoo-may", the capitalised rule finds nothing to match when
\* its turn comes, and the output holds "Reh-zoo-may" exactly where the text
\* already did
C25_CapitalRuleShadowed ==
    s_out # None
        => LET lower   == replace_map[CapitalResumeRule - 1][2]
               capital == replace_map[CapitalResumeRule][2]
           IN  /\ replace_map[CapitalResumeRule - 1][1] = resume
               /\ CountMatches(s_out[1], resume) = 0
               /\ CountExact(s_out[1], lower)
                      = CountExact(s_in.text, lower) + CountMatches(s_in.text, resume)
               /\ CountMatches(InOrder(SubSeq(replace_map, 1, CapitalResumeRule - 1),
                                       s_in.text),
                               replace_map[CapitalResumeRule][1]) = 0
               /\ CountExact(s_out[1], capital) = CountExact(s_in.text, capital)

C25_Witness ==
    /\ s_in.text = <<"R","e","s","u","m","e">> \o <<" ">>
    /\ s_out = Some(replace_map[CapitalResumeRule - 1][2] \o <<" ">>)
    /\ ~Contains(s_out[1], replace_map[CapitalResumeRule][2])

(***************************************************************************)
(* Properties of the text a turn returns                                   *)
(***************************************************************************)
\* the completion texts in which some fixed rule finds a match
MatchedCompletions ==
    { t \in CompletionTexts :
          \E k \in 1..Len(replace_map), i \in 1..Len(t) : MatchAt(t, i, replace_map[k][1]) }

\* C22: a turn that returns gives back the completion's text as the
\* collaborator returned it; the text handed to speech synthesis is the
\* sanitized one, and it differs from the returned text whenever a fixed rule
\* matches in the completion's text
C22_ReturnedTextUnsanitized ==
    \A c \in Calls :
        (op[c] = "turn" /\ pc[c] = "done")
            => /\ result[c].kind = "pair"
               /\ result[c].text = env[c].text
               /\ [text |-> result[c].text, spoken |-> sanitized_text[c]]
                      \in SanitizedCompletions
               /\ env[c].text \in MatchedCompletions
                      => sanitized_text[c] # result[c].text

C22_Witness ==
    \E c \in Calls :
        /\ op[c] = "turn"
        /\ pc[c] = "done"
        /\ result[c].text = <<"A","W","S">>
        /\ sanitized_text[c] # result[c].text
        /\ result[c].audio
               = Some(b64encode([text |-> sanitized_text[c], complete |-> TRUE]))

(***************************************************************************)
(* Properties of turns served one after the other                          *)
(***************************************************************************)
\* each completion text with the rules of a turn's own name applied in order
SanitizedUnderOwnName ==
    { [name |-> n, text |-> t, spoken |-> InOrder(RulesFor(Some(n)), t)] :
          n \in Names, t \in CompletionTexts }

\* C24: with the calls served one after the other, a turn that has reached
\* its synthesis step finds its own candidate_name argument stored in the
\* service, and the text it hands to speech synthesis is its completion's
\* text sanitized under its own name, whatever an earlier call left behind
C24_OwnNameWhenSequential ==
    \A c \in Calls :
        op[c] = "turn"
            => /\ pc[c] \in {"gir_complete", "tts_sanitize", "tts_save", "tts_read",
                             "tts_cleanup"}
                    => candidate_name = Some(arg_name[c])
               /\ (pc[c] \in {"tts_save", "tts_read", "tts_cleanup", "done"}
                       /\ env[c].completion = "returned")
                    => [name |-> arg_name[c], text |-> env[c].text,
                        spoken |-> sanitized_text[c]] \in SanitizedUnderOwnName

C24_Witness ==
    \E c, d \in Calls :
        /\ op[d] = "turn" /\ pc[d] = "raised" /\ arg_name[d] = Zayeem
        /\ op[c] = "turn" /\ pc[c] = "done" /\ arg_name[c] = Bob
        /\ candidate_name = Some(Bob)
        /\ env[c].text = <<"H","i"," ","Z","a","y","e","e","m">>
        /\ sanitized_text[c] = env[c].text

(***************************************************************************)
(* Properties of the phases of one interview                               *)
(***************************************************************************)
\* the phase the claim gives to the i-th turn of an interview
Schedule(i) ==
    CASE i \in 1..2 -> "INTRODUCTION"
      [] i \in 3..5 -> "TECHNICAL"
      [] i \in 6..8 -> "BEHAVIORAL"
      [] i >= 9     -> "WRAP_UP"

\* positions of the assistant entries of the transcript
TurnPositions == {p \in 1..Len(transcript) : IsAssistant(transcript[p])}

\* the phase the turn that wrote entry p was given: that of the transcript before it
PhaseUsedAt(p) == determine_phase(SubSeq(transcript, 1, p - 1))

TurnNumber(p) == Cardinality({q \in TurnPositions : q <= p})

PhasesFollowSchedule ==
    /\ \A p \in TurnPositions : PhaseUsedAt(p) = Schedule(TurnNumber(p))
    /\ TurnPositions # {} => phase = Schedule(Cardinality(TurnPositions))

====
